---- MODULE Spec2Model ----
(***************************************************************************)
(* A model of the tplink-omada-api client library:                         *)
(*   - OmadaApiConnection.iterate_pages against a paged backend            *)
(*     (SpecPages, FairPages) and the client listings that consume it      *)
(*     (SpecClients)                                                       *)
(*   - the login / freshness / request state machine of                    *)
(*     OmadaApiConnection and of the older OmadaClient (Spec)              *)
(*   - the site operations of OmadaSiteClient (SpecSite), and              *)
(*     update_switch_port over varied stored ports (SpecSwitchPort) and    *)
(*     from two tasks at once (SpecRace)                                   *)
(*   - session ownership over enter / exit / close (SpecSession)           *)
(*   - two tasks sharing one connection (SpecShared)                       *)
(* Each specification drives its own group of variables and leaves the     *)
(* other groups at their initial values.                                   *)
(***************************************************************************)
EXTENDS Integers, Sequences, FiniteSets, TLC

VARIABLES
    \* ---- iterate_pages ----
    totalRows,      \* rows the backend holds for the paged endpoint
    sizeMode,       \* what the backend reports as currentSize
    ip_pc,          \* position of the generator: "fetch", "yield", "done"
    current_page,   \* local current_page of iterate_pages
    has_next,       \* local has_next of iterate_pages
    page_data,      \* items of the fetched page that are not yet yielded
    yielded,        \* items yielded so far, in order
    page_requests,  \* page numbers requested so far, in order
    listing,        \* the consumer of the pages: "none" (the caller itself),
                    \* "connected" (get_connected_clients), "known"
                    \* (get_known_clients)
    item_fields,    \* the `wireless` field of the items a listing has taken
    views,          \* the client views a listing has yielded, in order
    \* ---- connection (OmadaApiConnection / OmadaClient) ----
    impl,           \* "conn": OmadaApiConnection, "client": OmadaClient
    csrf_token,     \* self._csrf_token; NoToken models None
    logon_set,      \* whether the attribute self._last_logon exists
    last_logon,     \* self._last_logon, seconds
    ctrl_set,       \* whether self._controller_id/_controller_version exist
    now,            \* time.time(), seconds
    issued,         \* number of tokens the controller has issued
    calls,          \* number of caller-level calls begun so far
    active,         \* the tasks that issue calls on the connection
    call,           \* per task: the call in progress
    last,           \* the last HTTP exchange and what the raw request made of it
    session,        \* self._session, self._own_session and the sessions' fate
    \* ---- site operations (OmadaSiteClient) and the controller's data ----
    ctrlMajor,      \* major version of the controller (get_controller_version)
    swPort,         \* the controller's record of the switch port
    profiles,       \* the controller's port profiles, by id
    apPorts,        \* the controller's lanPortSettings of the access point
    gwPoe,          \* the controller's gateway: per port "none", "off" or "on"
    scalls,         \* number of site operations begun so far
    sactive,        \* the tasks that call site operations
    scall           \* per task: the site operation in progress

pvars == <<totalRows, sizeMode, ip_pc, current_page, has_next, page_data,
           yielded, page_requests, listing, item_fields, views>>

cvars == <<impl, csrf_token, logon_set, last_logon, ctrl_set, now, issued,
           calls, active, call, last, session>>

svars == <<ctrlMajor, swPort, profiles, apPorts, gwPoe, scalls, sactive, scall>>

vars == <<pvars, cvars, svars>>

\* What the actions of one group leave unchanged.
notPages == <<cvars, svars>>
notConn == <<pvars, svars>>
notSite == <<pvars, cvars>>

(***************************************************************************)
(*                          iterate_pages                                  *)
(***************************************************************************)

\* _PAGE_SIZE of omadaapiconnection.py
PAGE_SIZE == 100

\* Largest number of rows the paged backend holds.
MaxRows == 250

Min(a, b) == IF a < b THEN a ELSE b

\* The items the backend returns for page n when asked for pages of `size`:
\* rows (n-1)*size+1 .. n*size, cut at totalRows.  An item is its row number.
BackendPageData(n, size, rows) ==
    LET lo == (n - 1) * size + 1
        hi == Min(n * size, rows)
    IN  IF lo > hi THEN <<>> ELSE [i \in 1..(hi - lo + 1) |-> lo + i - 1]

\* The largest page a backend that caps the page size serves.
ServerCap == 50

\* The paged response {currentPage, currentSize, totalRows, data}.  The
\* backend reports as currentSize either the page size it was asked for
\* ("pageSize"), the number of items on the page ("itemCount"), or, when it
\* caps the page size, the size of the pages it serves ("capped").
BackendPage(n, size, rows, mode) ==
    LET served == IF mode = "capped" THEN Min(size, ServerCap) ELSE size
        data == BackendPageData(n, served, rows)
    IN  [currentPage |-> n,
         currentSize |-> IF mode = "itemCount" THEN Len(data) ELSE served,
         totalRows   |-> rows,
         data        |-> data]

\* has_next that takes every page to hold one row.
HasNextIgnoresSize(total_rows, next_page, current_size) ==
    total_rows > next_page

\* has_next = total_rows > current_page * current_size, evaluated after
\* current_page has been advanced to the number of the next page.
HasNext(total_rows, next_page, current_size) ==
    total_rows > next_page * current_size

PagesStart(rows, modes, listings) ==
    /\ totalRows \in rows
    /\ sizeMode \in modes
    /\ listing \in listings
    /\ item_fields = <<>>
    /\ views = <<>>
    /\ ip_pc = "fetch"
    /\ current_page = 1
    /\ has_next = TRUE
    /\ page_data = <<>>
    /\ yielded = <<>>
    /\ page_requests = <<>>

\* One turn of the while loop up to the for loop: request the page, set up
\* the next page request.
FetchPage ==
    /\ ip_pc = "fetch"
    /\ has_next
    /\ LET response == BackendPage(current_page, PAGE_SIZE, totalRows, sizeMode)
           next_page == response.currentPage + 1
       IN  /\ current_page' = next_page
           /\ has_next' = HasNext(response.totalRows, next_page, response.currentSize)
           /\ page_data' = response.data
    /\ page_requests' = Append(page_requests, current_page)
    /\ ip_pc' = "yield"
    /\ UNCHANGED <<totalRows, sizeMode, yielded, listing, item_fields, views>>
    /\ UNCHANGED notPages

\* for item in data: yield item
YieldItem ==
    /\ listing = "none"
    /\ ip_pc = "yield"
    /\ page_data # <<>>
    /\ yielded' = Append(yielded, Head(page_data))
    /\ page_data' = Tail(page_data)
    /\ UNCHANGED <<totalRows, sizeMode, ip_pc, current_page, has_next, page_requests,
                   listing, item_fields, views>>
    /\ UNCHANGED notPages

\* What client.get("wireless") finds in an item: the boolean, or nothing.
WirelessValues == {"true", "false", "absent"}

\* A listing that takes every item that is not wireless for a wired client.
ClientViewWiredByDefault(w) == IF w = "true" THEN "wireless" ELSE "wired"

\* if is_wireless: OmadaWirelessClient; elif is_wireless is False:
\* OmadaWiredClient; else the item is passed over.
ClientView(w) ==
    IF w = "true" THEN "wireless" ELSE IF w = "false" THEN "wired" ELSE "none"

\* get_connected_clients / get_known_clients: iterate_pages yields the next
\* item, and the body of the `async for` yields its view or passes it over.
ClientItem ==
    /\ listing # "none"
    /\ ip_pc = "yield"
    /\ page_data # <<>>
    /\ yielded' = Append(yielded, Head(page_data))
    /\ page_data' = Tail(page_data)
    /\ \E w \in WirelessValues :
         /\ item_fields' = Append(item_fields, w)
         /\ views' = IF ClientView(w) = "none" THEN views
                     ELSE Append(views, ClientView(w))
    /\ UNCHANGED <<totalRows, sizeMode, ip_pc, current_page, has_next, page_requests,
                   listing>>
    /\ UNCHANGED notPages

\* The for loop is exhausted: back to the while test.
EndPage ==
    /\ ip_pc = "yield"
    /\ page_data = <<>>
    /\ ip_pc' = IF has_next THEN "fetch" ELSE "done"
    /\ UNCHANGED <<totalRows, sizeMode, current_page, has_next, page_data,
                   yielded, page_requests, listing, item_fields, views>>
    /\ UNCHANGED notPages

(***************************************************************************)
(*        Controller versions: the wire format and its comparisons         *)
(***************************************************************************)

\* Character codes of "." and "0" in the version strings.
CharCode == [dot |-> 46, zero |-> 48]
Dot == CharCode.dot
Zero == CharCode.zero

\* The versions the controller may report in controllerVer, as numbers.
VersionTriples ==
    {<<4, 9, 9>>, <<5, 0, 0>>, <<5, 0, 9>>, <<5, 1, 0>>, <<6, 0, 0>>, <<10, 0, 0>>}

\* Decimal digits of n (n < 100), as character codes.
DigitsOf(n) ==
    IF n < 10 THEN <<Zero + n>> ELSE <<Zero + (n \div 10), Zero + (n % 10)>>

\* The string "major.minor.patch" the controller sends.
VersionString(v) ==
    DigitsOf(v[1]) \o <<Dot>> \o DigitsOf(v[2]) \o <<Dot>> \o DigitsOf(v[3])

\* Numeric order of two version triples.
TripleLess(a, b) ==
    \/ a[1] < b[1]
    \/ a[1] = b[1] /\ a[2] < b[2]
    \/ a[1] = b[1] /\ a[2] = b[2] /\ a[3] < b[3]

\* Python's str < str: lexicographic on code points.
RECURSIVE StrLess(_, _)
StrLess(a, b) ==
    IF b = <<>> THEN FALSE
    ELSE IF a = <<>> THEN TRUE
    ELSE IF Head(a) # Head(b) THEN Head(a) < Head(b)
    ELSE StrLess(Tail(a), Tail(b))

\* The numeric components of a dotted version string.
RECURSIVE ParseVersionFrom(_, _, _)
ParseVersionFrom(s, acc, cur) ==
    IF s = <<>> THEN Append(acc, cur)
    ELSE IF Head(s) = Dot THEN ParseVersionFrom(Tail(s), Append(acc, cur), 0)
    ELSE ParseVersionFrom(Tail(s), acc, cur * 10 + (Head(s) - Zero))

ParseVersion(s) == ParseVersionFrom(s, <<>>, 0)

\* Component-by-component numeric order of two parsed versions.
RECURSIVE ComponentsLess(_, _)
ComponentsLess(a, b) ==
    IF a = <<>> \/ b = <<>> THEN a = <<>> /\ b # <<>>
    ELSE IF Head(a) # Head(b) THEN Head(a) < Head(b)
    ELSE ComponentsLess(Tail(a), Tail(b))

\* AwesomeVersion(a) < AwesomeVersion(b) on plain dotted versions.
AwesomeVersionLess(a, b) == ComponentsLess(ParseVersion(a), ParseVersion(b))

\* The minimum supported version each login names.
BaselineTriple(i) == IF i = "conn" THEN <<5, 1, 0>> ELSE <<5, 0, 0>>
ConnBaseline == VersionString(BaselineTriple("conn"))
ClientBaseline == VersionString(BaselineTriple("client"))

\* The version gate of OmadaApiConnection.login.
ConnVersionRejected(version) == AwesomeVersionLess(version, ConnBaseline)

\* The version gate of OmadaClient.login ("Alphabetical is good enough").
ClientVersionRejected(version) == StrLess(version, ClientBaseline)

VersionRejected(i, version) ==
    IF i = "conn" THEN ConnVersionRejected(version) ELSE ClientVersionRejected(version)

(***************************************************************************)
(*            The raw request: HTTP responses and their unpacking          *)
(***************************************************************************)

\* Application error code "login rejected".
LOGIN_REJECTED == -30109
\* response.status != 200
HttpOk == 200

\* The statuses and application error codes the controller answers with.
HttpStatuses == {HttpOk, 500}
ErrorCodes == {0, LOGIN_REJECTED, -1001}

\* What one HTTP exchange can bring back.  net # "ok" is an aiohttp error
\* raised by session.request; otherwise status and content type, and for a
\* JSON body: whether it decodes to a dict, its errorCode (if any) and
\* whether it has the envelope key "result".  For a body that is not a dict
\* hasResult tells whether `"result" in content` is true or cannot be
\* evaluated (a list or string holding "result", a number, null).
TransportErrors == {"InvalidURL", "ClientConnectionError", "ClientError"}

NoBody == [dict |-> FALSE, hasCode |-> FALSE, errorCode |-> 0, hasResult |-> FALSE]

JsonBodies ==
    {NoBody, [NoBody EXCEPT !.hasResult = TRUE]}
    \cup [dict : {TRUE}, hasCode : {FALSE}, errorCode : {0}, hasResult : BOOLEAN]
    \cup [dict : {TRUE}, hasCode : {TRUE},
          errorCode : ErrorCodes, hasResult : BOOLEAN]

Responses ==
    {[net |-> e, status |-> 0, json |-> FALSE, body |-> NoBody] : e \in TransportErrors}
    \cup [net : {"ok"}, status : HttpStatuses, json : {FALSE}, body : {NoBody}]
    \cup [net : {"ok"}, status : HttpStatuses, json : {TRUE}, body : JsonBodies]

Raise(e, c) == [exc |-> e, code |-> c, val |-> "none"]
Returns(v) == [exc |-> "none", code |-> 0, val |-> v]

\* OmadaApiConnection._check_application_errors
ConnCheckApplicationErrors(body) ==
    IF ~body.dict THEN Returns("none")
    ELSE IF ~body.hasCode THEN Raise("RequestFailed", LOGIN_REJECTED)
    ELSE IF body.errorCode = 0 THEN Returns("none")
    ELSE IF body.errorCode = LOGIN_REJECTED THEN Raise("LoginFailed", body.errorCode)
    ELSE Raise("RequestFailed", body.errorCode)

\* OmadaClient._check_application_errors
ClientCheckApplicationErrors(body) ==
    IF ~body.dict THEN Returns("none")
    ELSE IF ~body.hasCode THEN Raise("KeyError", 0)
    ELSE IF body.errorCode = 0 THEN Returns("none")
    ELSE Raise("RequestFailed", body.errorCode)

\* except client_exceptions.InvalidURL / ClientConnectionError / ClientError
TransportOutcome(e) ==
    IF e = "InvalidURL" THEN Raise("BadControllerUrl", 0)
    ELSE IF e = "ClientConnectionError" THEN Raise("ConnectionFailed", 0)
    ELSE Raise("RequestFailed", 0)

\* The raw request that never looks for the envelope key.
UnpackBodyOnly(body) == Returns("content")

\* "result" in content: return content["result"], else content.  On a body
\* that is not a dict the test or the subscript raises TypeError.
Unpack(body) ==
    IF ~body.hasResult THEN Returns("content")
    ELSE IF body.dict THEN Returns("result")
    ELSE Raise("TypeError", 0)

\* OmadaApiConnection._do_request, from the response on.
ConnDoRequest(r) ==
    IF r.net # "ok" THEN TransportOutcome(r.net)
    ELSE IF r.status # HttpOk THEN
        IF r.json /\ ConnCheckApplicationErrors(r.body).exc # "none"
        THEN ConnCheckApplicationErrors(r.body)
        ELSE Raise("RequestFailed", r.status)
    ELSE IF ~r.json THEN Raise("LoginSessionClosed", 0)
    ELSE IF ConnCheckApplicationErrors(r.body).exc # "none"
        THEN ConnCheckApplicationErrors(r.body)
    ELSE Unpack(r.body)

\* OmadaClient._request, from the response on.  response.json() on a body
\* whose content type is not JSON raises aiohttp's ContentTypeError, a
\* ClientError, which the handler turns into RequestFailed(0).
ClientRequest(r) ==
    IF r.net # "ok" THEN TransportOutcome(r.net)
    ELSE IF r.status # HttpOk THEN
        IF r.json /\ ClientCheckApplicationErrors(r.body).exc # "none"
        THEN ClientCheckApplicationErrors(r.body)
        ELSE Raise("RequestFailed", r.status)
    ELSE IF ~r.json THEN TransportOutcome("ClientError")
    ELSE IF ClientCheckApplicationErrors(r.body).exc # "none"
        THEN ClientCheckApplicationErrors(r.body)
    ELSE Unpack(r.body)

DoRequest(i, r) == IF i = "conn" THEN ConnDoRequest(r) ELSE ClientRequest(r)


(***************************************************************************)
(*     The connection: login, the freshness check, the request wrapper     *)
(***************************************************************************)

\* self._csrf_token = None
NoToken == 0

\* 60 * 60: "Assume 1hr is good for a login to remain active"
FRESH_WINDOW == 3600

\* The clock advances in steps of TimeStep seconds, up to MaxTime.
TimeStep == 1800
MaxTime == 5400

\* Caller-level calls begun in one behaviour.
MaxCalls == 3

AllTasks == {1, 2}

IdleCall ==
    [pc |-> "idle", op |-> "none",
     nLogin |-> 0, nStatus |-> 0, nInfo |-> 0, nPost |-> 0, nTarget |-> 0,
     nSite |-> 0, sessBefore |-> "none",
     exc |-> "none", code |-> 0, val |-> "none",
     hadToken |-> FALSE, elapsed |-> 0, refreshed |-> FALSE, refreshAt |-> 0,
     ver |-> <<>>, hadCtrl |-> FALSE, gate |-> "none", loginExc |-> "none",
     sentTok |-> NoToken]

NoExchange == [endpoint |-> "none", resp |-> [net |-> "ok", status |-> HttpOk,
               json |-> FALSE, body |-> NoBody], out |-> Returns("none")]

\* _check_login with the test "<=": a login exactly one hour old still counts
\* as fresh.
CheckLoginLocalInclusive(token, lastLogon, time) ==
    IF token = 0 THEN "no"
    ELSE IF time - lastLogon <= 3600 THEN "yes"
    ELSE "ask"

\* _check_login that asks the controller whenever there is a token.
CheckLoginLocalAlwaysAsk(token, lastLogon, time) ==
    IF token = 0 THEN "no" ELSE "ask"

\* The part of _check_login that needs no network: "no" (no token), "yes"
\* (token, and the last confirmed login is less than an hour old) or "ask"
\* (the loginStatus call is needed).
CheckLoginLocal(token, lastLogon, time) ==
    IF token = NoToken THEN "no"
    ELSE IF time - lastLogon < FRESH_WINDOW THEN "yes"
    ELSE "ask"

\* ---- the HTTP session ----
\* cur: self._session ("none" is None, "supplied" the websession passed to
\* __init__, "internal" a ClientSession made by _get_session); own: whether
\* the attribute self._own_session exists (it is only ever set to True);
\* supplied: the caller's session object; scope: inside `async with` or not;
\* closed: close() has released a session; sentAfterClose: a request was
\* sent after that.
NewSession(cur) ==
    [cur |-> cur, own |-> FALSE,
     supplied |-> IF cur = "supplied" THEN "open" ELSE "absent",
     scope |-> "out", closed |-> FALSE, sentAfterClose |-> FALSE]

\* _get_session
GetSession(s) ==
    IF s.cur = "none" THEN [s EXCEPT !.cur = "internal", !.own = TRUE] ELSE s

\* close()
CloseSession(s) ==
    IF s.cur = "none" THEN s
    ELSE [s EXCEPT !.cur = "none", !.closed = TRUE,
                   !.supplied = IF s.cur = "supplied" THEN "closed" ELSE @]

\* _do_request / _request up to session.request: the session is fetched or
\* made, and the request goes out on it.
SendOn(s) == [GetSession(s) EXCEPT !.sentAfterClose = @ \/ s.closed]

\* The requests a call has sent so far.
Requests(c) == c.nStatus + c.nInfo + c.nPost + c.nSite + c.nTarget

\* OmadaApiConnection.__aenter__ catches the exception of login(), closes
\* the session if self._own_session, and raises the exception again;
\* OmadaClient.__aenter__ has no handler.
EnterHandles(c) == c.op = "enter" /\ impl = "conn"

\* The session after a step that takes the call of a task from c0 to c1.
SessionAfter(c0, c1) ==
    LET s1 == IF Requests(c1) > Requests(c0) THEN SendOn(session) ELSE session
    IN  IF c1.op = "enter" /\ c1.pc = "done"
        THEN IF c1.loginExc = "none" THEN [s1 EXCEPT !.scope = "in"]
             ELSE IF EnterHandles(c1) /\ s1.own THEN CloseSession(s1)
             ELSE s1
        ELSE s1

\* login() that stores the token and leaves the timestamp as it was.
StoreTokenOnly(token, time) ==
    [csrf_token |-> token, logon_set |-> logon_set, last_logon |-> last_logon]

\* login(): self._csrf_token = response["token"] and, with no await in
\* between, self._last_logon = time.time().
StoreLogin(token, time) ==
    [csrf_token |-> token, logon_set |-> TRUE, last_logon |-> time]

\* login() that forgets the token when it fails.
FailedLoginClearsToken(token, set, time) ==
    [csrf_token |-> 0, logon_set |-> FALSE, last_logon |-> 0]

\* login() raised before its assignments to self._csrf_token and
\* self._last_logon: both stay as they are.
FailedLogin(token, set, time) ==
    [csrf_token |-> token, logon_set |-> set, last_logon |-> time]

\* A request that waits for a login in flight instead of calling login().
JoinLogin(c) == [c EXCEPT !.pc = "await_join"]

\* login(): up to the await of the controller-info request.
StartLogin(c) ==
    [c EXCEPT !.pc = "await_info", !.nLogin = @ + 1, !.nInfo = @ + 1]

\* The caller's request sent without the Csrf-Token header.
SendTargetNoHeader(c, token) ==
    [c EXCEPT !.pc = "await_target", !.nTarget = @ + 1, !.sentTok = NoToken]

\* _do_request(method, url, ...) for the caller's request: the Csrf-Token
\* header is taken from self._csrf_token when the request is sent.
SendTarget(c, token) ==
    [c EXCEPT !.pc = "await_target", !.nTarget = @ + 1, !.sentTok = token]

\* The call ends: it returns out.val or raises out.exc.
Finish(c, out) ==
    [c EXCEPT !.pc = "done", !.exc = out.exc, !.code = out.code, !.val = out.val]

\* _check_login that lets the exception of its loginStatus request out.
StatusFailurePropagates(c, out) ==
    IF out.exc # "none" THEN Finish(c, out) ELSE StartLogin(c)

\* _check_login when the loginStatus request failed or did not say
\* login = true: `except: return False`, or logged_in is false; request()
\* then calls login().
StatusNotLoggedIn(c, out) == StartLogin(c)

\* The wrapper swallows the exception of login() and sends the target.
LoginRaisesSwallowed(c, out) ==
    [c EXCEPT !.pc = "await_target", !.nTarget = @ + 1, !.loginExc = out.exc]

\* An exception raised inside login() is not caught by login(), by request()
\* or by _authenticated_request(): it ends the call.  The handler of
\* OmadaApiConnection.__aenter__ reads self._own_session before it raises
\* the exception again.
LoginRaises(c, out) ==
    Finish([c EXCEPT !.loginExc = out.exc],
           IF EnterHandles(c) /\ ~session.own THEN Raise("AttributeError", 0) ELSE out)

\* login() has returned: request() goes on to the target request, a direct
\* call of login() returns.
LoginReturns(c, token) ==
    IF c.op \in {"request", "get_devices"} THEN SendTarget(c, token)
    ELSE Finish(c, Returns("none"))

\* The operations a caller starts on the connection.  "enter" is
\* __aenter__, "get_devices" is OmadaSiteClient.get_devices on the
\* connection.
ConnOps == {"login", "request", "enter", "get_devices"}

\* A caller starts an operation; the code runs up to its first network
\* await.  get_devices formats its url, which reads self._controller_id,
\* before it calls request().
Begin(t, ops) ==
    /\ t \in active
    /\ call[t].pc = "idle"
    /\ calls < MaxCalls
    /\ calls' = calls + 1
    /\ \E op \in ops :
         LET c0 == [IdleCall EXCEPT !.op = op,
                                    !.hadToken = csrf_token # NoToken,
                                    !.hadCtrl = ctrl_set,
                                    !.sessBefore = session.cur,
                                    !.elapsed = IF csrf_token # NoToken
                                                THEN now - last_logon ELSE 0]
             chk == CheckLoginLocal(csrf_token, last_logon, now)
         IN  /\ op = "enter" => session.scope = "out"
             /\ op = "get_devices" => impl = "conn"
             /\ call' = [call EXCEPT ![t] =
                 IF op = "get_devices" /\ ~ctrl_set
                 THEN Finish(c0, Raise("AttributeError", 0))
                 ELSE IF op \in {"login", "enter"} \/ chk = "no" THEN StartLogin(c0)
                 ELSE IF chk = "yes" THEN SendTarget(c0, csrf_token)
                 ELSE [c0 EXCEPT !.pc = "await_status", !.nStatus = @ + 1]]
    /\ session' = SessionAfter(call[t], call'[t])
    /\ UNCHANGED <<impl, csrf_token, logon_set, last_logon, ctrl_set, now, issued,
                   active, last>>
    /\ UNCHANGED notConn

\* The loginStatus response arrives in _check_login.  Every failure, and
\* login = false, makes _check_login return False, and the wrapper calls
\* login(); login = true refreshes the timestamp.
RecvStatus(t) ==
    /\ t \in active
    /\ call[t].pc = "await_status"
    /\ \E r \in Responses, login \in {"true", "false", "missing"} :
         LET out == DoRequest(impl, r)
             logged_in == out.exc = "none" /\ r.body.dict /\ login = "true"
         IN  /\ (out.exc # "none" => login = "missing")
             /\ last' = [endpoint |-> "loginStatus", resp |-> r, out |-> out]
             /\ IF logged_in
                THEN /\ last_logon' = now
                     /\ call' = [call EXCEPT ![t] =
                            SendTarget([@ EXCEPT !.refreshed = TRUE, !.refreshAt = now],
                                       csrf_token)]
                ELSE /\ last_logon' = last_logon
                     /\ call' = [call EXCEPT ![t] = StatusNotLoggedIn(@, out)]
    /\ session' = SessionAfter(call[t], call'[t])
    /\ UNCHANGED <<impl, csrf_token, logon_set, ctrl_set, now, issued, calls, active>>
    /\ UNCHANGED notConn

\* The /api/info response arrives in login(): the version gate, then the
\* credentials POST.  The exception of the gate is built from
\* self._controller_version, an attribute that exists only once a login has
\* passed the gate.
RecvInfo(t) ==
    /\ t \in active
    /\ call[t].pc = "await_info"
    /\ \E r \in Responses, v \in VersionTriples \cup {<<>>} :
         LET out == DoRequest(impl, r)
             c == [call[t] EXCEPT !.ver = v]
         IN  /\ (out.exc # "none" \/ ~r.body.dict => v = <<>>)
             /\ last' = [endpoint |-> "info", resp |-> r, out |-> out]
             /\ IF out.exc # "none" THEN
                    /\ call' = [call EXCEPT ![t] = LoginRaises(c, out)]
                    /\ ctrl_set' = ctrl_set
                ELSE IF v = <<>> THEN
                    /\ call' = [call EXCEPT ![t] = LoginRaises(c,
                                   Raise(IF r.body.dict THEN "KeyError" ELSE "TypeError", 0))]
                    /\ ctrl_set' = ctrl_set
                ELSE IF VersionRejected(impl, VersionString(v)) THEN
                    /\ call' = [call EXCEPT ![t] = LoginRaises([c EXCEPT !.gate = "reject"],
                                   Raise(IF ctrl_set THEN "UnsupportedControllerVersion"
                                         ELSE "AttributeError", 0))]
                    /\ ctrl_set' = ctrl_set
                ELSE
                    /\ call' = [call EXCEPT ![t] =
                                   [c EXCEPT !.gate = "pass", !.pc = "await_post",
                                             !.nPost = @ + 1]]
                    /\ ctrl_set' = TRUE
    /\ session' = SessionAfter(call[t], call'[t])
    /\ UNCHANGED <<impl, csrf_token, logon_set, last_logon, now, issued, calls, active>>
    /\ UNCHANGED notConn

\* The response of the credentials POST arrives in login(): the token and
\* the timestamp are stored.  OmadaClient.login then looks up the site id
\* through _authenticated_request, whose _check_login finds the login fresh.
RecvPost(t) ==
    /\ t \in active
    /\ call[t].pc = "await_post"
    /\ \E r \in Responses, hasToken \in BOOLEAN :
         LET out == DoRequest(impl, r)
             token == issued + 1
         IN  /\ (out.exc # "none" \/ ~r.body.dict => ~hasToken)
             /\ last' = [endpoint |-> "login", resp |-> r, out |-> out]
             /\ IF out.exc # "none" \/ ~hasToken THEN
                    /\ call' = [call EXCEPT ![t] = LoginRaises(@,
                                   IF out.exc # "none" THEN out
                                   ELSE Raise(IF r.body.dict THEN "KeyError" ELSE "TypeError", 0))]
                    /\ csrf_token' = FailedLogin(csrf_token, logon_set, last_logon).csrf_token
                    /\ logon_set' = FailedLogin(csrf_token, logon_set, last_logon).logon_set
                    /\ last_logon' = FailedLogin(csrf_token, logon_set, last_logon).last_logon
                    /\ UNCHANGED issued
                ELSE
                    /\ csrf_token' = StoreLogin(token, now).csrf_token
                    /\ logon_set' = StoreLogin(token, now).logon_set
                    /\ last_logon' = StoreLogin(token, now).last_logon
                    /\ issued' = issued + 1
                    /\ call' = [call EXCEPT ![t] =
                                   IF impl = "client"
                                   THEN [@ EXCEPT !.pc = "await_site", !.nSite = @ + 1]
                                   ELSE LoginReturns(@, token)]
    /\ session' = SessionAfter(call[t], call'[t])
    /\ UNCHANGED <<impl, ctrl_set, now, calls, active>>
    /\ UNCHANGED notConn

\* OmadaClient._get_site_id: the users/current response arrives.
RecvSite(t) ==
    /\ t \in active
    /\ call[t].pc = "await_site"
    /\ \E r \in Responses, site \in {"found", "absent", "missing"} :
         LET out == DoRequest(impl, r)
         IN  /\ (out.exc # "none" \/ ~r.body.dict => site = "missing")
             /\ last' = [endpoint |-> "users/current", resp |-> r, out |-> out]
             /\ call' = [call EXCEPT ![t] =
                    IF out.exc # "none" THEN LoginRaises(@, out)
                    ELSE IF site = "missing"
                    THEN LoginRaises(@, Raise(IF r.body.dict THEN "KeyError" ELSE "TypeError", 0))
                    ELSE IF site = "absent" THEN LoginRaises(@, Raise("SiteNotFound", 0))
                    ELSE LoginReturns(@, csrf_token)]
    /\ session' = SessionAfter(call[t], call'[t])
    /\ UNCHANGED <<impl, csrf_token, logon_set, last_logon, ctrl_set, now, issued,
                   calls, active>>
    /\ UNCHANGED notConn

\* The response of the caller's request arrives: the call returns or raises.
RecvTarget(t) ==
    /\ t \in active
    /\ call[t].pc = "await_target"
    /\ \E r \in Responses :
         LET out == DoRequest(impl, r)
         IN  /\ last' = [endpoint |-> "target", resp |-> r, out |-> out]
             /\ call' = [call EXCEPT ![t] = Finish(@, out)]
    /\ session' = SessionAfter(call[t], call'[t])
    /\ UNCHANGED <<impl, csrf_token, logon_set, last_logon, ctrl_set, now, issued,
                   calls, active>>
    /\ UNCHANGED notConn

\* __aexit__ at the end of `async with`: the session is closed if
\* self._own_session, an attribute that exists only once _get_session has
\* made a session.
Exit(t) ==
    /\ t \in active
    /\ call[t].pc = "idle"
    /\ calls < MaxCalls
    /\ session.scope = "in"
    /\ calls' = calls + 1
    /\ call' = [call EXCEPT ![t] =
           Finish([IdleCall EXCEPT !.op = "exit", !.sessBefore = session.cur],
                  IF session.own THEN Returns("none") ELSE Raise("AttributeError", 0))]
    /\ session' = [(IF session.own THEN CloseSession(session) ELSE session)
                      EXCEPT !.scope = "out"]
    /\ UNCHANGED <<impl, csrf_token, logon_set, last_logon, ctrl_set, now, issued,
                   active, last>>
    /\ UNCHANGED notConn

\* close()
Close(t) ==
    /\ t \in active
    /\ call[t].pc = "idle"
    /\ calls < MaxCalls
    /\ calls' = calls + 1
    /\ call' = [call EXCEPT ![t] =
           Finish([IdleCall EXCEPT !.op = "close", !.sessBefore = session.cur],
                  Returns("none"))]
    /\ session' = CloseSession(session)
    /\ UNCHANGED <<impl, csrf_token, logon_set, last_logon, ctrl_set, now, issued,
                   active, last>>
    /\ UNCHANGED notConn

\* The caller has its result; the task is free for the next call.
Return(t) ==
    /\ t \in active
    /\ call[t].pc = "done"
    /\ call' = [call EXCEPT ![t] = IdleCall]
    /\ UNCHANGED <<impl, csrf_token, logon_set, last_logon, ctrl_set, now, issued,
                   calls, active, last>>
    /\ UNCHANGED session
    /\ UNCHANGED notConn

\* Time passes.
Advance ==
    /\ now + TimeStep <= MaxTime
    /\ now' = now + TimeStep
    /\ UNCHANGED <<impl, csrf_token, logon_set, last_logon, ctrl_set, issued,
                   calls, active, call, last>>
    /\ UNCHANGED session
    /\ UNCHANGED notConn

\* The connection as constructed by __init__, used by the tasks in `tasks`.
ConnStart(impls, sessions, tasks) ==
    /\ impl \in impls
    /\ session \in {NewSession(k) : k \in sessions}
    /\ csrf_token = NoToken
    /\ logon_set = FALSE
    /\ last_logon = 0
    /\ ctrl_set = FALSE
    /\ now = 0
    /\ issued = 0
    /\ calls = 0
    /\ active = tasks
    /\ call = [t \in AllTasks |-> IdleCall]
    /\ last = NoExchange

ConnIdle == ConnStart({"conn"}, {"none"}, {})

(***************************************************************************)
(*          Site operations: the controller's data and the views           *)
(***************************************************************************)

\* PoEMode, BandwidthControl, LinkSpeed of definitions.py
PoE == [none |-> -1, disabled |-> 0, enabled |-> 1, use_device_settings |-> 2]
PoEModes == {PoE.none, PoE.disabled, PoE.enabled, PoE.use_device_settings}
BandwidthControl == [OFF |-> 0, RATE_LIMIT |-> 1]
LinkSpeed == [SPEED_AUTO |-> 0, SPEED_1_GBPS |-> 3]

\* The fields of a switch port this model follows, under their JSON names.
\* duplex and tagIds are composed like linkSpeed, dot1x, loopbackDetectEnable,
\* spanningTreeEnable and portIsolationEnable like lldpMedEnable.
BaseFields == {"name", "profileId", "linkSpeed", "profileOverrideEnable"}

\* The switch ports the controller may hold: any override flag, PoE mode and
\* LLDP-MED flag, with at most one of operation, bandwidth control,
\* topology notify and DHCP L2 relay away from the value the client writes.
WrittenValues ==
    [operation |-> "switching", bandWidthCtrlType |-> BandwidthControl.OFF,
     topoNotifyEnable |-> FALSE, dhcpL2RelayEnable |-> FALSE]
StoredValues ==
    {WrittenValues,
     [WrittenValues EXCEPT !.operation = "mirroring"],
     [WrittenValues EXCEPT !.bandWidthCtrlType = BandwidthControl.RATE_LIMIT],
     [WrittenValues EXCEPT !.topoNotifyEnable = TRUE],
     [WrittenValues EXCEPT !.dhcpL2RelayEnable = TRUE]}
SwitchPorts ==
    {[name |-> "eth", profileId |-> "A", linkSpeed |-> LinkSpeed.SPEED_1_GBPS,
      profileOverrideEnable |-> ov, operation |-> w.operation,
      bandWidthCtrlType |-> w.bandWidthCtrlType, poe |-> poe,
      lldpMedEnable |-> lldp, topoNotifyEnable |-> w.topoNotifyEnable,
      dhcpL2RelayEnable |-> w.dhcpL2RelayEnable] :
        ov \in BOOLEAN, poe \in PoEModes, lldp \in BOOLEAN, w \in StoredValues}

\* The profiles "A" and "B"; only "A" varies.
ProfileRecords == [poe : PoEModes, lldpMedEnable : BOOLEAN]
ProfileSets ==
    {[id \in {"A", "B"} |-> IF id = "A" THEN pr
                            ELSE [poe |-> PoE.enabled, lldpMedEnable |-> TRUE]] :
        pr \in ProfileRecords}

\* SwitchPortSettings with its PortProfileOverrides: `given` holds the
\* fields that are not None, `val` their values.
NoSettingValues ==
    [name |-> "", profile_id |-> "", link_speed |-> LinkSpeed.SPEED_AUTO,
     profile_override_enabled |-> FALSE, enable_poe |-> FALSE,
     lldp_med_enable |-> FALSE]
AllUnset == [given |-> {}, val |-> NoSettingValues]
Only(f, v) == [given |-> {f}, val |-> [NoSettingValues EXCEPT ![f] = v]]

SwitchSettings ==
    {AllUnset,
     Only("name", "new"),
     Only("name", ""),
     Only("link_speed", LinkSpeed.SPEED_AUTO),
     Only("profile_override_enabled", TRUE),
     Only("profile_override_enabled", FALSE),
     Only("enable_poe", TRUE),
     Only("enable_poe", FALSE),
     Only("lldp_med_enable", FALSE)}

Given(st, f) == f \in st.given

\* A request body: the fields present and their values.
Payload(fields, values) == [f |-> fields, v |-> values]
EmptyPayload(values) == Payload({}, values)

\* The controller applies a PATCH: every field of the body replaces the
\* stored one.
ApplyPatch(stored, body) ==
    [k \in DOMAIN stored |-> IF k \in body.f THEN body.v[k] ELSE stored[k]]

\* get_switch_port_overrides that never reads the overrides of the port.
ProfileValuesOnly(port, profs) ==
    [enable_poe |-> profs[port.profileId].poe # PoE.disabled,
     lldp_med_enable |-> profs[port.profileId].lldpMedEnable]

\* get_switch_port_overrides that takes PoE as enabled only when the mode
\* of the profile is ENABLED.
OverridesPoeEnabledOnly(port, profs) ==
    IF port.profileOverrideEnable
    THEN [enable_poe |-> port.poe = PoE.enabled,
          lldp_med_enable |-> port.lldpMedEnable]
    ELSE [enable_poe |-> profs[port.profileId].poe = PoE.enabled,
          lldp_med_enable |-> profs[port.profileId].lldpMedEnable]

\* get_switch_port_overrides, after its get_switch_port: the overrides of
\* the port when it has them, else the values of its profile.
get_switch_port_overrides(port, profs) ==
    IF port.profileOverrideEnable
    THEN [enable_poe |-> port.poe = PoE.enabled,
          lldp_med_enable |-> port.lldpMedEnable]
    ELSE [enable_poe |-> profs[port.profileId].poe # PoE.disabled,
          lldp_med_enable |-> profs[port.profileId].lldpMedEnable]

\* update_switch_port: override_setting
override_setting(st, port) ==
    IF Given(st, "profile_override_enabled") THEN st.val.profile_override_enabled
    ELSE port.profileOverrideEnable

\* A payload with only the fields the caller set, and the override flag.
BasePayloadGivenOnly(st, port) ==
    Payload({"profileOverrideEnable"}
                \cup (IF Given(st, "name") /\ st.val.name # "" THEN {"name"} ELSE {})
                \cup (IF Given(st, "link_speed") THEN {"linkSpeed"} ELSE {}),
        [port EXCEPT
            !.name = IF Given(st, "name") /\ st.val.name # "" THEN st.val.name ELSE @,
            !.linkSpeed = IF Given(st, "link_speed") THEN st.val.link_speed ELSE @,
            !.profileOverrideEnable = override_setting(st, port)])

\* update_switch_port: the payload before the overrides are added.
\* `x or y` takes y when x is None or empty.
BasePayload(st, port) ==
    Payload(BaseFields,
        [port EXCEPT
            !.name = IF Given(st, "name") /\ st.val.name # "" THEN st.val.name ELSE @,
            !.profileId = IF Given(st, "profile_id") /\ st.val.profile_id # ""
                          THEN st.val.profile_id ELSE @,
            !.linkSpeed = IF Given(st, "link_speed") THEN st.val.link_speed ELSE @,
            !.profileOverrideEnable = override_setting(st, port)])

\* The override fields with the bandwidth control of the port left as it is.
OverridePayloadKeepsBandwidth(base, st, existing, major) ==
    LET enable_poe == IF Given(st, "enable_poe") THEN st.val.enable_poe
                      ELSE existing.enable_poe
        lldp == IF Given(st, "lldp_med_enable") THEN st.val.lldp_med_enable
                ELSE existing.lldp_med_enable
        common == [base.v EXCEPT
                      !.operation = "switching",
                      !.poe = IF enable_poe THEN PoE.enabled ELSE PoE.disabled,
                      !.lldpMedEnable = lldp]
        commonFields == base.f \cup {"operation", "bandWidthCtrlType", "poe", "lldpMedEnable"}
    IN  IF major < 6
        THEN Payload(commonFields \cup {"topoNotifyEnable"},
                     [common EXCEPT !.topoNotifyEnable = FALSE])
        ELSE Payload(commonFields \cup {"dhcpL2RelayEnable"},
                     [common EXCEPT !.dhcpL2RelayEnable = FALSE])

\* update_switch_port: the fields added when override_setting is true.
OverridePayload(base, st, existing, major) ==
    LET enable_poe == IF Given(st, "enable_poe") THEN st.val.enable_poe
                      ELSE existing.enable_poe
        lldp == IF Given(st, "lldp_med_enable") THEN st.val.lldp_med_enable
                ELSE existing.lldp_med_enable
        common == [base.v EXCEPT
                      !.operation = "switching",
                      !.bandWidthCtrlType = BandwidthControl.OFF,
                      !.poe = IF enable_poe THEN PoE.enabled ELSE PoE.disabled,
                      !.lldpMedEnable = lldp]
        commonFields == base.f \cup {"operation", "bandWidthCtrlType", "poe", "lldpMedEnable"}
    IN  IF major < 6
        THEN Payload(commonFields \cup {"topoNotifyEnable"},
                     [common EXCEPT !.topoNotifyEnable = FALSE])
        ELSE Payload(commonFields \cup {"dhcpL2RelayEnable"},
                     [common EXCEPT !.dhcpL2RelayEnable = FALSE])

\* ---- access point ports ----
ApPortNames == {"ETH1", "ETH2"}
ApPortRecords ==
    [localVlanEnable : BOOLEAN, localVlanId : {1, 10}, poeOutEnable : BOOLEAN,
     supportPoe : BOOLEAN]
FixedApPort ==
    [localVlanEnable |-> FALSE, localVlanId |-> 1, poeOutEnable |-> FALSE,
     supportPoe |-> FALSE]

\* AccessPointPortSettings
ApSettingValues == [enable_poe |-> FALSE, vlan_enable |-> FALSE, vlan_id |-> 1]
ApSettings ==
    {[given |-> {}, val |-> ApSettingValues],
     [given |-> {"enable_poe"}, val |-> [ApSettingValues EXCEPT !.enable_poe = TRUE]],
     [given |-> {"enable_poe"}, val |-> ApSettingValues],
     [given |-> {"vlan_enable", "vlan_id"},
      val |-> [ApSettingValues EXCEPT !.vlan_enable = TRUE, !.vlan_id = 10]]}

\* update_access_point_port: the lanPortSettings entry composed for port ps.
ApPortEntry(setting, ps) ==
    [ps EXCEPT
        !.localVlanEnable = IF Given(setting, "vlan_enable") THEN setting.val.vlan_enable ELSE @,
        !.localVlanId = IF Given(setting, "vlan_id") THEN setting.val.vlan_id ELSE @,
        !.poeOutEnable = IF Given(setting, "enable_poe") /\ ps.supportPoe
                         THEN setting.val.enable_poe ELSE @]

\* update_access_point_port: the entries for the ports named port_name.
ApPayload(setting, ports, port_name) ==
    [n \in {m \in DOMAIN ports : m = port_name} |-> ApPortEntry(setting, ports[n])]

\* The controller applies the lanPortSettings of a PATCH.
ApplyApPatch(ports, entries) ==
    [n \in DOMAIN ports |-> IF n \in DOMAIN entries THEN entries[n] ELSE ports[n]]

\* ---- gateway ports ----
GwPorts == 1..3
GwPoeStates == [GwPorts -> {"none", "off", "on"}]

\* OmadaGateway.supports_poe: a gateway of this model has supportPoe set
\* exactly when its poeSettings has an entry.
GwSupportsPoe(gw) == \E p \in GwPorts : gw[p] # "none"

\* OmadaGateway.port_configs / OmadaGatewayPortConfig.poe_mode
GwPoeMode(gw, p) ==
    IF ~GwSupportsPoe(gw) \/ gw[p] = "none" THEN PoE.none
    ELSE IF gw[p] = "on" THEN PoE.enabled ELSE PoE.disabled

\* poeSettings with an entry for the target port only.
GwPayloadTargetOnly(enable_poe, port_id, gw) ==
    [p \in {q \in GwPorts : GwPoeMode(gw, q) # PoE.none /\ q = port_id} |-> enable_poe]

\* set_gateway_port_settings: poeSettings, one entry per port whose PoE
\* mode is not NONE.
GwPayload(enable_poe, port_id, gw) ==
    [p \in {q \in GwPorts : GwPoeMode(gw, q) # PoE.none} |->
        IF port_id = p THEN enable_poe ELSE GwPoeMode(gw, p) = PoE.enabled]

\* The controller applies the poeSettings of a PATCH.
ApplyGwPatch(gw, poeSettings) ==
    [p \in GwPorts |-> IF p \in DOMAIN poeSettings
                       THEN (IF poeSettings[p] THEN "on" ELSE "off") ELSE gw[p]]

\* ---- device handles and the type guard ----
\* OmadaDevice.type, and OmadaDevice.resource_path's prefix for it.
DeviceTypes == {"ap", "gateway", "switch"}
ResourcePrefix(type) ==
    IF type = "ap" THEN "eaps" ELSE IF type = "gateway" THEN "gateways" ELSE "switches"

\* The per-device operations of OmadaSiteClient.
SwitchOps == {"get_switch", "get_switch_ports", "get_switch_port",
              "get_switch_port_overrides", "update_switch_port"}
ApOps == {"get_access_point", "get_access_point_port", "update_access_point_port"}
GatewayOps == {"get_gateway", "get_gateway_port", "set_gateway_wan_port_connect_state",
               "set_gateway_port_settings"}
AnyDeviceOps == {"get_firmware_details", "start_firmware_upgrade", "set_led_setting"}
DeviceOps == SwitchOps \cup ApOps \cup GatewayOps \cup AnyDeviceOps
\* get_port_profile takes a profile id and no device.
SiteOps == DeviceOps \cup {"get_port_profile"}
UpdateOps == {"update_switch_port", "update_access_point_port", "set_gateway_port_settings"}

\* The endpoint family an operation addresses: the first segment of the
\* resource url it formats ("devices" for the operations on any device).
Endpoint(op) ==
    IF op \in SwitchOps THEN "switches"
    ELSE IF op \in ApOps THEN "eaps"
    ELSE IF op \in GatewayOps THEN "gateways"
    ELSE IF op \in AnyDeviceOps THEN "devices"
    ELSE "setting"

\* CheckedType without the comparison of _get_gateway_mac.
CheckedTypeNoGateway(op) ==
    IF op \in SwitchOps THEN "switch" ELSE IF op \in ApOps THEN "ap" ELSE "any"

\* The type tag an operation compares a device handle with, "any" when it
\* makes no comparison.
CheckedType(op) ==
    IF op \in {"get_switch", "get_switch_ports", "get_switch_port",
               "get_switch_port_overrides", "update_switch_port"} THEN "switch"
    ELSE IF op \in {"get_access_point", "get_access_point_port",
                    "update_access_point_port"} THEN "ap"
    ELSE IF op \in {"get_gateway", "get_gateway_port",
                    "set_gateway_wan_port_connect_state",
                    "set_gateway_port_settings"} THEN "gateway"
    ELSE "any"

\* isinstance(mac_or_device, OmadaDevice) and mac_or_device.type != <type>
GuardRejects(op, dev) ==
    dev \in DeviceTypes /\ CheckedType(op) # "any" /\ dev # CheckedType(op)

\* ---- calls on the site client ----
MaxSiteCalls == 1
FixedSwitchPort ==
    [name |-> "eth", profileId |-> "A", linkSpeed |-> LinkSpeed.SPEED_1_GBPS,
     profileOverrideEnable |-> FALSE, operation |-> "switching",
     bandWidthCtrlType |-> BandwidthControl.OFF, poe |-> PoE.enabled,
     lldpMedEnable |-> FALSE, topoNotifyEnable |-> FALSE,
     dhcpL2RelayEnable |-> FALSE]
FixedProfiles == [id \in {"A", "B"} |-> [poe |-> PoE.enabled, lldpMedEnable |-> TRUE]]
FixedApPorts == [n \in ApPortNames |-> FixedApPort]
FixedGwPoe == [p \in GwPorts |-> "none"]

\* The arguments of update_switch_port: the settings, and whether the port
\* is given by its number, by a handle that matches the controller or by a
\* handle fetched before the port's override flag changed.
SwitchArgs ==
    {<<st, "index">> : st \in SwitchSettings}
    \cup {<<AllUnset, "fresh">>, <<Only("enable_poe", TRUE), "fresh">>,
          <<AllUnset, "stale">>}
PortHandle(how, stored) ==
    IF how = "stale" THEN [stored EXCEPT !.profileOverrideEnable = ~@] ELSE stored

\* The arguments of update_access_point_port and set_gateway_port_settings.
ApArgs == ApSettings \X {"ETH1", "ETH3"}
GwArgs == {"unset", "on", "off"} \X {1, 2, 4}

\* The profile ids get_port_profile is asked for.
ProfileArgs == {"A", "Z"}

IdleSiteCall ==
    [pc |-> "idle", op |-> "none", dev |-> "mac", exc |-> "none", net |-> 0,
     patched |-> FALSE, from |-> "none",
     st |-> AllUnset, how |-> "index", pre |-> FixedSwitchPort,
     port |-> FixedSwitchPort, port2 |-> FixedSwitchPort,
     existing |-> [enable_poe |-> FALSE, lldp_med_enable |-> FALSE],
     payload |-> EmptyPayload(FixedSwitchPort), swResult |-> FixedSwitchPort,
     apSt |-> CHOOSE a \in ApSettings : a.given = {}, apName |-> "ETH1",
     apSeen |-> FixedApPorts, apResult |-> FixedApPort, profId |-> "A",
     gwEnable |-> "unset", gwPort |-> 1, gwSeen |-> FixedGwPoe,
     gwPayload |-> [p \in {} |-> FALSE], gwResult |-> PoE.none]

SiteStart(majors, ports, profs, aps, gws, tasks) ==
    /\ ctrlMajor \in majors
    /\ swPort \in ports
    /\ profiles \in profs
    /\ apPorts \in aps
    /\ gwPoe \in gws
    /\ scalls = 0
    /\ sactive = tasks
    /\ scall = [t \in AllTasks |-> IdleSiteCall]

SiteIdle ==
    SiteStart({5}, {FixedSwitchPort}, {FixedProfiles}, {FixedApPorts}, {FixedGwPoe}, {})

SiteRaise(c, e) == [c EXCEPT !.pc = "done", !.exc = e]
Issue(c, pc) == [c EXCEPT !.pc = pc, !.net = @ + 1]
Backend == <<ctrlMajor, swPort, profiles, apPorts, gwPoe>>

\* update_switch_port from the point where `port` is known: the payload is
\* started, and either get_switch_port_overrides is called or the PATCH is
\* sent.
SwCompose(c, port) ==
    LET c1 == [c EXCEPT !.port = port, !.payload = BasePayload(c.st, port)]
    IN  IF override_setting(c.st, port) THEN Issue(c1, "sw_ovr_get")
        ELSE Issue(c1, "sw_patch")

\* set_gateway_port_settings after _get_gateway_mac.
GwProceed(c) ==
    IF c.gwEnable # "unset" THEN Issue(c, "gw_get") ELSE Issue(c, "gw_readback")

\* A call starts and runs to its first network request, or to the exception
\* it raises before one.
SiteBegin(t, ops) ==
    /\ t \in sactive /\ scall[t].pc = "idle" /\ scalls < MaxSiteCalls
    /\ \E op \in ops, dev \in {"mac", "none"} \cup DeviceTypes,
          sw \in SwitchArgs, ap \in ApArgs, gw \in GwArgs, prof \in ProfileArgs :
        /\ dev = "none" => op \in GatewayOps \cup {"get_port_profile"}
        /\ op = "get_port_profile" => dev = "none"
        /\ op # "update_switch_port" => sw = <<AllUnset, "index">>
        /\ op # "update_access_point_port" => ap[1].given = {}
        /\ op \notin {"update_access_point_port", "get_access_point_port"}
               => ap[2] = "ETH1"
        /\ op # "set_gateway_port_settings" => gw[1] = "unset"
        /\ op \notin {"set_gateway_port_settings", "get_gateway_port"} => gw[2] = 1
        /\ op # "get_port_profile" => prof = "A"
        /\ LET c == [IdleSiteCall EXCEPT
                        !.op = op, !.dev = dev, !.st = sw[1], !.how = sw[2],
                        !.pre = swPort, !.apSt = ap[1], !.apName = ap[2],
                        !.gwEnable = gw[1], !.gwPort = gw[2], !.profId = prof]
           IN  scall' = [scall EXCEPT ![t] =
                   IF GuardRejects(op, dev) THEN SiteRaise(c, "InvalidDevice")
                   ELSE IF op = "update_switch_port"
                   THEN (IF c.how = "index" THEN Issue(c, "sw_get")
                         ELSE SwCompose(c, PortHandle(c.how, swPort)))
                   ELSE IF op = "update_access_point_port" THEN Issue(c, "ap_get")
                   ELSE IF op = "set_gateway_port_settings"
                   THEN (IF dev = "none" THEN Issue(c, "gw_devices") ELSE GwProceed(c))
                   ELSE IF (op \in GatewayOps /\ dev = "none")
                           \/ (op = "set_led_setting" /\ dev = "mac")
                   THEN Issue(Issue(c, "simple"), "simple")
                   ELSE Issue(c, "simple")]
    /\ UNCHANGED <<Backend, scalls, sactive>>
    /\ UNCHANGED notSite

\* next(p for p in ... if ...) without a default raises StopIteration when
\* nothing matches, and a coroutine that raises StopIteration fails with
\* RuntimeError; get_port_profile passes None as the default and raises
\* InvalidDevice itself.
NotFound(c) ==
    IF c.op = "get_access_point_port" /\ c.apName \notin DOMAIN apPorts
        THEN "RuntimeError"
    ELSE IF c.op = "get_gateway_port" /\ c.gwPort \notin GwPorts THEN "RuntimeError"
    ELSE IF c.op = "get_port_profile" /\ c.profId \notin DOMAIN profiles
        THEN "InvalidDevice"
    ELSE "none"

\* The requests of an operation that only reads, or that this model does
\* not follow further, are answered; get_access_point_port,
\* get_gateway_port and get_port_profile pick their item from the answer.
SimpleDone(t) ==
    /\ t \in sactive /\ scall[t].pc = "simple"
    /\ scall' = [scall EXCEPT ![t] =
           IF NotFound(@) # "none" THEN SiteRaise(@, NotFound(@))
           ELSE [@ EXCEPT !.pc = "done", !.from = "get",
                    !.apResult = IF scall[t].op = "get_access_point_port"
                                 THEN apPorts[scall[t].apName] ELSE @,
                    !.gwResult = IF scall[t].op = "get_gateway_port"
                                 THEN GwPoeMode(gwPoe, scall[t].gwPort) ELSE @]]
    /\ UNCHANGED <<Backend, scalls, sactive>>
    /\ UNCHANGED notSite

\* update_switch_port: get_switch_port answers with the port.
SwGet(t) ==
    /\ t \in sactive /\ scall[t].pc = "sw_get"
    /\ scall' = [scall EXCEPT ![t] =
           SwCompose(@, swPort)]
    /\ UNCHANGED <<Backend, scalls, sactive>>
    /\ UNCHANGED notSite

\* get_switch_port_overrides: its get_switch_port answers; the overrides come
\* from the port, or get_port_profile asks for the profiles.
SwOvrGet(t) ==
    /\ t \in sactive /\ scall[t].pc = "sw_ovr_get"
    /\ scall' = [scall EXCEPT ![t] =
           IF swPort.profileOverrideEnable
           THEN Issue([@ EXCEPT !.port2 = swPort,
                         !.existing = get_switch_port_overrides(swPort, profiles),
                         !.payload = OverridePayload(@, scall[t].st,
                             get_switch_port_overrides(swPort, profiles),
                             ctrlMajor)],
                      "sw_patch")
           ELSE Issue([@ EXCEPT !.port2 = swPort], "sw_prof")]
    /\ UNCHANGED <<Backend, scalls, sactive>>
    /\ UNCHANGED notSite

\* get_port_profile: the profile list answers; InvalidDevice when the
\* port's profile is not in it.
SwProf(t) ==
    /\ t \in sactive /\ scall[t].pc = "sw_prof"
    /\ scall' = [scall EXCEPT ![t] =
           IF @.port2.profileId \notin DOMAIN profiles
           THEN SiteRaise(@, "InvalidDevice")
           ELSE Issue([@ EXCEPT
                         !.existing = get_switch_port_overrides(scall[t].port2, profiles),
                         !.payload = OverridePayload(@, scall[t].st,
                             get_switch_port_overrides(scall[t].port2, profiles),
                             ctrlMajor)],
                      "sw_patch")]
    /\ UNCHANGED <<Backend, scalls, sactive>>
    /\ UNCHANGED notSite

\* update_switch_port: the controller applies the PATCH and answers; the
\* answer is dropped and get_switch_port is sent.
SwPatch(t) ==
    /\ t \in sactive /\ scall[t].pc = "sw_patch"
    /\ swPort' = ApplyPatch(swPort, scall[t].payload)
    /\ scall' = [scall EXCEPT ![t] = Issue([@ EXCEPT !.patched = TRUE], "sw_readback")]
    /\ UNCHANGED <<ctrlMajor, profiles, apPorts, gwPoe, scalls, sactive>>
    /\ UNCHANGED notSite

\* update_switch_port: the port read back is returned.
SwReadback(t) ==
    /\ t \in sactive /\ scall[t].pc = "sw_readback"
    /\ scall' = [scall EXCEPT ![t] =
           [@ EXCEPT !.pc = "done", !.swResult = swPort, !.from = "get"]]
    /\ UNCHANGED <<Backend, scalls, sactive>>
    /\ UNCHANGED notSite

\* update_access_point_port: get_access_point answers; the PATCH is sent.
ApGet(t) ==
    /\ t \in sactive /\ scall[t].pc = "ap_get"
    /\ scall' = [scall EXCEPT ![t] =
           Issue([@ EXCEPT !.apSeen = apPorts], "ap_patch")]
    /\ UNCHANGED <<Backend, scalls, sactive>>
    /\ UNCHANGED notSite

\* update_access_point_port: the controller applies the PATCH, composed from
\* the access point as get_access_point returned it, and answers with the
\* access point as it was or as it is now; the port of that answer is
\* returned; next() finds none of that name: RuntimeError.
ApPatch(t) ==
    /\ t \in sactive /\ scall[t].pc = "ap_patch"
    /\ LET c == scall[t]
           after == ApplyApPatch(apPorts, ApPayload(c.apSt, c.apSeen, c.apName))
       IN  /\ apPorts' = after
           /\ \E answer \in {apPorts, after} :
                scall' = [scall EXCEPT ![t] =
                    IF c.apName \notin DOMAIN answer
                    THEN [SiteRaise(c, "RuntimeError") EXCEPT !.patched = TRUE]
                    ELSE [c EXCEPT !.pc = "done", !.patched = TRUE,
                             !.apResult = answer[c.apName], !.from = "patch"]]
    /\ UNCHANGED <<ctrlMajor, swPort, profiles, gwPoe, scalls, sactive>>
    /\ UNCHANGED notSite

\* _get_gateway_mac: get_devices answers with the site's gateway.
GwDevices(t) ==
    /\ t \in sactive /\ scall[t].pc = "gw_devices"
    /\ scall' = [scall EXCEPT ![t] =
           GwProceed(@)]
    /\ UNCHANGED <<Backend, scalls, sactive>>
    /\ UNCHANGED notSite

\* set_gateway_port_settings: get_gateway answers; InvalidDevice when the
\* gateway has no PoE, else the payload is composed from the gateway read
\* and the PATCH is sent.
GwGet(t) ==
    /\ t \in sactive /\ scall[t].pc = "gw_get"
    /\ scall' = [scall EXCEPT ![t] =
           IF ~GwSupportsPoe(gwPoe) THEN SiteRaise(@, "InvalidDevice")
           ELSE Issue([@ EXCEPT !.gwSeen = gwPoe,
                         !.gwPayload = GwPayload(scall[t].gwEnable = "on",
                                                 scall[t].gwPort, gwPoe)],
                      "gw_patch")]
    /\ UNCHANGED <<Backend, scalls, sactive>>
    /\ UNCHANGED notSite

\* set_gateway_port_settings: the controller applies the PATCH and answers;
\* the answer is dropped and get_gateway_port is sent.
GwPatch(t) ==
    /\ t \in sactive /\ scall[t].pc = "gw_patch"
    /\ gwPoe' = ApplyGwPatch(gwPoe, scall[t].gwPayload)
    /\ scall' = [scall EXCEPT ![t] = Issue([@ EXCEPT !.patched = TRUE], "gw_readback")]
    /\ UNCHANGED <<ctrlMajor, swPort, profiles, apPorts, scalls, sactive>>
    /\ UNCHANGED notSite

\* get_gateway_port: the port config of the gateway read back is returned;
\* next() finds no port of that number: RuntimeError.
GwReadback(t) ==
    /\ t \in sactive /\ scall[t].pc = "gw_readback"
    /\ scall' = [scall EXCEPT ![t] =
           IF @.gwPort \notin GwPorts THEN SiteRaise(@, "RuntimeError")
           ELSE [@ EXCEPT !.pc = "done", !.from = "get",
                    !.gwResult = GwPoeMode(gwPoe, scall[t].gwPort)]]
    /\ UNCHANGED <<Backend, scalls, sactive>>
    /\ UNCHANGED notSite

\* The caller takes the result or the exception.
SiteReturn(t) ==
    /\ t \in sactive /\ scall[t].pc = "done"
    /\ scall' = [scall EXCEPT ![t] = IdleSiteCall]
    /\ scalls' = scalls + 1
    /\ UNCHANGED <<Backend, sactive>>
    /\ UNCHANGED notSite

(***************************************************************************)
(*                           Specifications                                *)
(***************************************************************************)

Init == ConnStart({"conn", "client"}, {"none"}, {1}) /\ PagesStart({0}, {"pageSize"}, {"none"}) /\ SiteIdle

Next ==
    \/ \E t \in AllTasks : Begin(t, {"login", "request"})
    \/ \E t \in AllTasks : RecvStatus(t)
    \/ \E t \in AllTasks : RecvInfo(t)
    \/ \E t \in AllTasks : RecvPost(t)
    \/ \E t \in AllTasks : RecvSite(t)
    \/ \E t \in AllTasks : RecvTarget(t)
    \/ \E t \in AllTasks : Return(t)
    \/ Advance

Spec == Init /\ [][Next]_vars

(***************************************************************************)
(*                     Properties of the connection                        *)
(***************************************************************************)

\* C4: a call of the authenticated request wrapper invokes login() at most
\* once and sends the target request at most once; when that login raises,
\* the call ends with the login's exception and the target is never sent.
C4_OneLoginNoRetry ==
    \A t \in AllTasks :
        LET c == call[t]
        IN  c.op = "request" =>
                /\ c.nLogin <= 1
                /\ c.nTarget <= 1
                /\ (c.loginExc # "none" =>
                        c.pc = "done" /\ c.exc = c.loginExc /\ c.nTarget = 0)

\* A wrapper call whose single login was rejected by the controller.
C4_Witness ==
    /\ call[1].op = "request"
    /\ call[1].pc = "done"
    /\ call[1].nLogin = 1
    /\ call[1].loginExc = "LoginFailed"

\* C5: with a token held, a request checked less than an hour after the
\* last confirmed login issues no loginStatus call; one checked an hour or
\* more after it issues exactly one, and a login=true answer resets the
\* timestamp to the time of that answer.
C5_Freshness ==
    \A t \in AllTasks :
        LET c == call[t]
        IN  (c.op = "request" /\ c.hadToken) =>
                /\ (c.elapsed < FRESH_WINDOW => c.nStatus = 0)
                /\ (c.elapsed >= FRESH_WINDOW => c.nStatus = 1)
                /\ (c.refreshed => logon_set /\ last_logon >= c.refreshAt)

\* A request made an hour after the login, confirmed by loginStatus, then
\* completed without a new login.
C5_Witness ==
    /\ call[1].op = "request"
    /\ call[1].pc = "done"
    /\ call[1].exc = "none"
    /\ call[1].elapsed >= FRESH_WINDOW
    /\ call[1].refreshed
    /\ call[1].nStatus = 1
    /\ call[1].nLogin = 0

\* C6: a login that learns a version below the baseline fails with
\* UnsupportedControllerVersion and sends no credentials POST, whatever the
\* state of the connection before.
C6_GateRaisesUnsupported ==
    \A t \in AllTasks :
        LET c == call[t]
        IN  (c.pc = "done" /\ c.ver # <<>> /\ TripleLess(c.ver, BaselineTriple(impl))) =>
                c.exc = "UnsupportedControllerVersion" /\ c.nPost = 0

\* C7: a login that learns a version equal to or above the baseline,
\* compared numerically, passes the version gate, in both implementations.
C7_GateIsSemantic ==
    \A t \in AllTasks :
        LET c == call[t]
        IN  (c.ver # <<>> /\ ~TripleLess(c.ver, BaselineTriple(impl))) => c.gate = "pass"

\* C9: a JSON body with an application error code: the login-rejection code
\* raises LoginFailed, any other non-zero code raises RequestFailed with that
\* code, and code 0 raises no application error (on a non-200 status the
\* HTTP failure with the status remains).
C9_ErrorCodeMapping ==
    LET r == last.resp
        o == last.out
    IN  (last.endpoint # "none" /\ r.net = "ok" /\ r.json /\ r.body.dict /\ r.body.hasCode) =>
            /\ (r.body.errorCode = LOGIN_REJECTED => o.exc = "LoginFailed")
            /\ (r.body.errorCode \notin {0, LOGIN_REJECTED} =>
                    o.exc = "RequestFailed" /\ o.code = r.body.errorCode)
            /\ (r.body.errorCode = 0 =>
                    \/ r.status = HttpOk /\ o.exc = "none"
                    \/ r.status # HttpOk /\ o.exc = "RequestFailed" /\ o.code = r.status)

\* C10: status 200 with a non-JSON content type raises LoginSessionClosed;
\* a non-200 status without a JSON body raises RequestFailed with the status.
C10_SessionClosedDistinct ==
    LET r == last.resp
        o == last.out
    IN  (last.endpoint # "none" /\ r.net = "ok" /\ ~r.json) =>
            /\ (r.status = HttpOk => o.exc = "LoginSessionClosed")
            /\ (r.status # HttpOk => o.exc = "RequestFailed" /\ o.code = r.status)


InitPages ==
    PagesStart(0..MaxRows, {"pageSize", "itemCount", "capped"}, {"none"}) /\ ConnIdle /\ SiteIdle

NextPages == FetchPage \/ YieldItem \/ EndPage

SpecPages == InitPages /\ [][NextPages]_vars

\* ---- the client listings over a small collection ----
MaxClients == 4

InitClients ==
    /\ PagesStart(0..MaxClients, {"pageSize"}, {"connected", "known"})
    /\ ConnIdle
    /\ SiteIdle

NextClients == FetchPage \/ ClientItem \/ EndPage

SpecClients == InitClients /\ [][NextClients]_vars

\* The consumer keeps iterating and the backend answers every request.
FairPages == SpecPages /\ WF_vars(NextPages)

\* All rows of the backend, in server order.
AllRows == [i \in 1..totalRows |-> i]

\* C1: when the generator has finished, it has yielded exactly totalRows
\* items, in server-returned order, whatever totalRows is.
C1_YieldsAllRows == ip_pc = "done" => yielded = AllRows

\* ---- every per-device operation, one call at a time ----
OverriddenSwitchPort ==
    [FixedSwitchPort EXCEPT !.profileOverrideEnable = TRUE, !.poe = PoE.disabled]
PoeApPorts == [FixedApPorts EXCEPT !["ETH1"].supportPoe = TRUE]
PoeGateway == [p \in GwPorts |-> IF p = 1 THEN "off" ELSE "none"]
MixedGateway == [p \in GwPorts |-> IF p = 1 THEN "on" ELSE IF p = 2 THEN "off" ELSE "none"]

InitSite ==
    /\ SiteStart({5, 6}, {FixedSwitchPort, OverriddenSwitchPort}, {FixedProfiles},
                 {FixedApPorts, PoeApPorts},
                 {FixedGwPoe, PoeGateway, MixedGateway}, {1})
    /\ PagesStart({0}, {"pageSize"}, {"none"})
    /\ ConnIdle

NextSite ==
    \/ \E t \in AllTasks : SiteBegin(t, SiteOps)
    \/ \E t \in AllTasks : SimpleDone(t)
    \/ \E t \in AllTasks : SwGet(t)
    \/ \E t \in AllTasks : SwOvrGet(t)
    \/ \E t \in AllTasks : SwProf(t)
    \/ \E t \in AllTasks : SwPatch(t)
    \/ \E t \in AllTasks : SwReadback(t)
    \/ \E t \in AllTasks : ApGet(t)
    \/ \E t \in AllTasks : ApPatch(t)
    \/ \E t \in AllTasks : GwDevices(t)
    \/ \E t \in AllTasks : GwGet(t)
    \/ \E t \in AllTasks : GwPatch(t)
    \/ \E t \in AllTasks : GwReadback(t)
    \/ \E t \in AllTasks : SiteReturn(t)

SpecSite == InitSite /\ [][NextSite]_vars

\* ---- update_switch_port on every switch port ----
InitSwitchPort ==
    /\ SiteStart({5, 6}, SwitchPorts, ProfileSets, {FixedApPorts}, {FixedGwPoe}, {1})
    /\ PagesStart({0}, {"pageSize"}, {"none"})
    /\ ConnIdle

NextSwitchPort ==
    \/ \E t \in AllTasks : SiteBegin(t, {"update_switch_port"})
    \/ \E t \in AllTasks : SwGet(t)
    \/ \E t \in AllTasks : SwOvrGet(t)
    \/ \E t \in AllTasks : SwProf(t)
    \/ \E t \in AllTasks : SwPatch(t)
    \/ \E t \in AllTasks : SwReadback(t)
    \/ \E t \in AllTasks : SiteReturn(t)

SpecSwitchPort == InitSwitchPort /\ [][NextSwitchPort]_vars

\* ---- two tasks call update_switch_port on the same port ----
InitRace ==
    /\ SiteStart({5, 6}, {FixedSwitchPort, OverriddenSwitchPort}, {FixedProfiles},
                 {FixedApPorts}, {FixedGwPoe}, {1, 2})
    /\ PagesStart({0}, {"pageSize"}, {"none"})
    /\ ConnIdle

NextRace ==
    \/ \E t \in AllTasks : SiteBegin(t, {"update_switch_port"})
    \/ \E t \in AllTasks : SwGet(t)
    \/ \E t \in AllTasks : SwOvrGet(t)
    \/ \E t \in AllTasks : SwProf(t)
    \/ \E t \in AllTasks : SwPatch(t)
    \/ \E t \in AllTasks : SwReadback(t)

SpecRace == InitRace /\ [][NextRace]_vars

(***************************************************************************)
(*                     Claims about the site client                        *)
(***************************************************************************)

\* The result of a finished update call is what the controller holds.
ReturnedIsCurrent(c) ==
    IF c.op = "update_switch_port" THEN c.swResult = swPort
    ELSE IF c.op = "update_access_point_port" THEN c.apResult = apPorts[c.apName]
    ELSE c.gwResult = GwPoeMode(gwPoe, c.gwPort)

\* C2: after update_switch_port, update_access_point_port or
\* set_gateway_port_settings has sent its PATCH and returned, the object
\* returned was built from a GET issued after the PATCH, never from the
\* answer to the PATCH, and equals the state the controller holds.
C2_ReadAfterWrite ==
    \A t \in AllTasks :
        LET c == scall[t]
        IN  (c.pc = "done" /\ c.op \in UpdateOps /\ c.patched /\ c.exc = "none")
                => (c.from = "get" /\ ReturnedIsCurrent(c))

\* The values update_switch_port writes whatever the port held.
PoeWritten(port) == IF port.poe = PoE.enabled THEN PoE.enabled ELSE PoE.disabled
AllUnsetCall(c) ==
    /\ c.op = "update_switch_port" /\ c.st = AllUnset /\ c.how \in {"index", "fresh"}
    /\ c.exc = "none"
PatchComposed(c) == c.pc \in {"sw_patch", "sw_readback", "done"}

WrongHandle(c) ==
    /\ c.dev \in DeviceTypes
    /\ Endpoint(c.op) \in {"switches", "eaps", "gateways"}
    /\ ResourcePrefix(c.dev) # Endpoint(c.op)

\* C8: a switch, access point or gateway operation that is given a device
\* handle of another type fails with InvalidDevice, and no network request
\* is made for it.
C8_GuardBeforeNetwork ==
    \A t \in AllTasks :
        LET c == scall[t]
        IN  (c.pc # "idle" /\ WrongHandle(c))
                => (c.pc = "done" /\ c.exc = "InvalidDevice" /\ c.net = 0)

C8_Witness ==
    \E t \in AllTasks :
        LET c == scall[t]
        IN  /\ c.pc = "done" /\ c.op = "set_gateway_port_settings" /\ c.dev = "ap"
            /\ c.gwEnable = "on" /\ c.exc = "InvalidDevice" /\ c.net = 0

(***************************************************************************)
(*        The scoped session: __aenter__, __aexit__, close()               *)
(***************************************************************************)

InitSession ==
    /\ ConnStart({"conn", "client"}, {"none", "supplied"}, {1})
    /\ PagesStart({0}, {"pageSize"}, {"none"})
    /\ SiteIdle

NextSession ==
    \/ \E t \in AllTasks : Begin(t, {"enter", "request", "get_devices"})
    \/ \E t \in AllTasks : RecvInfo(t)
    \/ \E t \in AllTasks : RecvPost(t)
    \/ \E t \in AllTasks : RecvSite(t)
    \/ \E t \in AllTasks : RecvTarget(t)
    \/ \E t \in AllTasks : Exit(t)
    \/ \E t \in AllTasks : Close(t)
    \/ \E t \in AllTasks : Return(t)

SpecSession == InitSession /\ [][NextSession]_vars

(***************************************************************************)
(*             Two tasks share one OmadaApiConnection                      *)
(***************************************************************************)

\* Each of the two tasks issues one authenticated request.

InitShared ==
    /\ ConnStart({"conn"}, {"none"}, {1, 2})
    /\ PagesStart({0}, {"pageSize"}, {"none"})
    /\ SiteIdle

NextShared ==
    \/ \E t \in AllTasks : Begin(t, {"request"})
    \/ \E t \in AllTasks : RecvInfo(t)
    \/ \E t \in AllTasks : RecvPost(t)
    \/ \E t \in AllTasks : RecvTarget(t)

SpecShared == InitShared /\ [][NextShared]_vars

(***************************************************************************)
(*                  Claims about the scoped session                        *)
(***************************************************************************)

\* C11: when the scoped session is left, the HTTP session is closed if and
\* only if the library made it: a session made internally is closed, and
\* with a session supplied by the caller __aexit__ raises nothing and the
\* session stays open.
C11_ExitClosesOwnSessionOnly ==
    \A t \in AllTasks :
        LET c == call[t]
        IN  (c.op = "exit" /\ c.pc = "done")
                => /\ c.sessBefore = "internal"
                        => (c.exc = "none" /\ session.cur = "none")
                   /\ c.sessBefore = "supplied"
                        => (c.exc = "none" /\ session.supplied = "open")

\* C12: when login fails inside __aenter__ and the session was made
\* internally, the session is closed before the caller sees the error, and
\* the error is the one login raised.
C12_EnterFailureClosesSession ==
    \A t \in AllTasks :
        LET c == call[t]
        IN  (c.op = "enter" /\ c.pc = "done" /\ c.loginExc # "none"
             /\ c.sessBefore = "none")
                => (session.cur = "none" /\ c.exc = c.loginExc)

\* C13: once close() has released the session, nothing more happens on the
\* connection: no request is sent and no new session is made.
C13_ClosedIsTerminal ==
    session.closed => (~session.sentAfterClose /\ session.cur = "none")

\* C14: get_devices on a connection on which login() never completed logs
\* in first and then sends its request; it does not fail on the controller
\* id that is unknown when its url is formatted.
C14_ImplicitLoginBeforeUrl ==
    \A t \in AllTasks :
        LET c == call[t]
        IN  (c.op = "get_devices" /\ ~c.hadCtrl /\ c.pc # "idle")
                => (c.nLogin = 1 /\ ~(c.exc = "AttributeError" /\ Requests(c) = 0))

(***************************************************************************)
(*                  Claims about the token                                 *)
(***************************************************************************)

\* C15: in every state of a connection the CSRF token and the timestamp of
\* the last login are both set or both absent.
C15_TokenAndTimestampTogether == (csrf_token # NoToken) <=> logon_set

C15_Witness ==
    /\ csrf_token # NoToken /\ logon_set
    /\ \E t \in AllTasks :
         call[t].op = "login" /\ call[t].pc = "done" /\ call[t].exc = "none"

\* C16: every request the authenticated wrapper sends for its caller
\* carries, as its Csrf-Token header, the token of the most recent
\* successful login on the connection; none is sent while there is no
\* token.
C16_TargetCarriesLatestToken ==
    [][\A t \in AllTasks :
          call'[t].nTarget > call[t].nTarget
              => /\ call'[t].sentTok # NoToken
                 /\ call'[t].sentTok = csrf_token'
                 /\ call'[t].sentTok = issued']_vars

C16_Witness ==
    \E t \in AllTasks :
        /\ call[t].op = "request" /\ call[t].pc = "await_target"
        /\ issued = 2 /\ call[t].sentTok = 2

(***************************************************************************)
(*                  Claims about the envelope                              *)
(***************************************************************************)

\* The last exchange was an HTTP 200 with a JSON body.
LastIsJson200 ==
    /\ last.endpoint # "none"
    /\ last.resp.net = "ok" /\ last.resp.status = HttpOk /\ last.resp.json

AsksForMissing(c) ==
    \/ c.op = "get_access_point_port" /\ c.apName \notin DOMAIN apPorts
    \/ c.op = "get_gateway_port" /\ c.gwPort \notin GwPorts
    \/ c.op = "get_port_profile" /\ c.profId \notin DOMAIN profiles

\* C18: get_access_point_port for a port name the access point does not
\* have, get_gateway_port for a port number the gateway does not have and
\* get_port_profile for a profile id that is not in the site's list fail
\* with InvalidDevice.
C18_MissingIsInvalidDevice ==
    \A t \in AllTasks :
        LET c == scall[t]
        IN  (c.pc = "done" /\ AsksForMissing(c)) => c.exc = "InvalidDevice"

\* C20: every update that sends a PATCH has sent a GET for the current
\* state of its target before, in the same call, and every field of the
\* payload that is not given by the caller has the value of that GET; so
\* also when update_switch_port is given a port handle.
C20_PayloadFromFreshGet ==
    \A t \in AllTasks :
        LET c == scall[t]
        IN  /\ c.pc = "sw_patch"
                => /\ c.net >= 2
                   /\ \A f \in BaseFields :
                        c.payload.v[f] = BasePayload(c.st, c.pre).v[f]
            /\ c.pc = "ap_patch" => (c.net >= 2 /\ c.apSeen = apPorts)
            /\ c.pc = "gw_patch" => (c.net >= 2 /\ c.gwSeen = gwPoe)

(***************************************************************************)
(*                  Claims about concurrent requests                       *)
(***************************************************************************)

\* C19: nothing serialises login.  A request that finds no token calls
\* login() itself, whatever the other task is doing, so two requests issued
\* together on a connection that is not logged in can both send the
\* credentials POST.
C19_EveryRequestLogsIn ==
    [][\A t \in AllTasks :
          (call[t].pc = "idle" /\ call'[t].pc # "idle"
           /\ call'[t].op = "request" /\ csrf_token = NoToken)
              => (call'[t].pc = "await_info" /\ call'[t].nLogin = 1)]_vars

\* Both credentials POSTs are in flight.
C19_Witness ==
    \A t \in AllTasks :
        /\ call[t].op = "request" /\ ~call[t].hadToken
        /\ call[t].pc = "await_post" /\ call[t].nPost = 1

(***************************************************************************)
(*               Claims about the payload of update_switch_port            *)
(***************************************************************************)

\* The value a field of the port has for the caller before the call: the
\* override of the port when the port is overridden, else the value of its
\* profile; PoE as the on/off choice the settings offer.
EffectivePoe(port, profs) ==
    IF port.profileOverrideEnable THEN PoeWritten(port)
    ELSE IF profs[port.profileId].poe # PoE.disabled THEN PoE.enabled
    ELSE PoE.disabled
EffectiveLldp(port, profs) ==
    IF port.profileOverrideEnable THEN port.lldpMedEnable
    ELSE profs[port.profileId].lldpMedEnable

\* A call of update_switch_port, for a port given by its number, that has
\* composed its payload.
ComposedByIndex(c) ==
    /\ c.op = "update_switch_port" /\ c.how = "index" /\ c.exc = "none"
    /\ PatchComposed(c)

\* C21: every field update_switch_port puts in its payload has the caller's
\* value when the caller gave one, an empty string included, and else the
\* current effective value: the port's override when the port is overridden,
\* else the value of the port's profile.
C21_CallerValueWins ==
    \A t \in AllTasks :
        LET c == scall[t]
            st == c.st
            pl == c.payload
        IN  ComposedByIndex(c)
                => /\ pl.v.name = IF Given(st, "name") THEN st.val.name ELSE c.pre.name
                   /\ pl.v.profileId = IF Given(st, "profile_id") THEN st.val.profile_id
                                       ELSE c.pre.profileId
                   /\ pl.v.linkSpeed = IF Given(st, "link_speed") THEN st.val.link_speed
                                       ELSE c.pre.linkSpeed
                   /\ pl.v.profileOverrideEnable =
                          IF Given(st, "profile_override_enabled")
                          THEN st.val.profile_override_enabled
                          ELSE c.pre.profileOverrideEnable
                   /\ "poe" \in pl.f
                          => pl.v.poe =
                                IF Given(st, "enable_poe")
                                THEN (IF st.val.enable_poe THEN PoE.enabled
                                      ELSE PoE.disabled)
                                ELSE EffectivePoe(c.pre, profiles)
                   /\ "lldpMedEnable" \in pl.f
                          => pl.v.lldpMedEnable =
                                IF Given(st, "lldp_med_enable")
                                THEN st.val.lldp_med_enable
                                ELSE EffectiveLldp(c.pre, profiles)

\* A call of update_switch_port whose PATCH is composed.
SwitchPatch(c) == c.op = "update_switch_port" /\ c.exc = "none" /\ PatchComposed(c)

\* C23 as stated: every PATCH of update_switch_port carries bandwidth
\* control OFF and topology notify false, whatever the port holds and the
\* caller asks for.
C23_EveryPatchPinsBaseline ==
    \A t \in AllTasks :
        LET c == scall[t]
        IN  SwitchPatch(c)
                => /\ "bandWidthCtrlType" \in c.payload.f
                   /\ c.payload.v.bandWidthCtrlType = BandwidthControl.OFF
                   /\ "topoNotifyEnable" \in c.payload.f
                   /\ c.payload.v.topoNotifyEnable = FALSE

\* C23, amended: a PATCH of update_switch_port whose profileOverrideEnable
\* is true carries operation "switching" and bandwidth control OFF, and
\* topology notify false on a controller before version 6, where from
\* version 6 it carries the DHCP L2 relay flag false and no topology notify;
\* a PATCH whose profileOverrideEnable is false carries none of these
\* fields.  This holds whatever the port holds and the caller asks for.
C23_OverridePatchPinsBaseline ==
    \A t \in AllTasks :
        LET c == scall[t]
            pl == c.payload
            pinned == {"operation", "bandWidthCtrlType", "topoNotifyEnable",
                       "dhcpL2RelayEnable"}
        IN  SwitchPatch(c)
                => IF pl.v.profileOverrideEnable
                   THEN /\ pl.f \cap pinned =
                              {"operation", "bandWidthCtrlType",
                               IF ctrlMajor < 6 THEN "topoNotifyEnable"
                               ELSE "dhcpL2RelayEnable"}
                        /\ pl.v.operation = "switching"
                        /\ pl.v.bandWidthCtrlType = BandwidthControl.OFF
                        /\ ctrlMajor < 6 => pl.v.topoNotifyEnable = FALSE
                        /\ ctrlMajor >= 6 => pl.v.dhcpL2RelayEnable = FALSE
                   ELSE pl.f \cap pinned = {}

C23_Witness ==
    \E t \in AllTasks :
        LET c == scall[t]
        IN  /\ SwitchPatch(c) /\ c.patched /\ ctrlMajor < 6
            /\ c.pre.bandWidthCtrlType = BandwidthControl.RATE_LIMIT
            /\ Given(c.st, "enable_poe")
            /\ c.payload.v.profileOverrideEnable
            /\ swPort.bandWidthCtrlType = BandwidthControl.OFF
            /\ swPort.topoNotifyEnable = FALSE

\* A call of update_switch_port in which get_switch_port_overrides has
\* returned.
OverridesReturned(c) == SwitchPatch(c) /\ c.payload.v.profileOverrideEnable

\* The requests update_switch_port has sent when its PATCH is out, given
\* whether get_port_profile was called.
RequestsToPatch(c, withProfile) ==
    (IF c.how = "index" THEN 1 ELSE 0) + 1 + (IF withProfile THEN 1 ELSE 0) + 1

\* C24: for a port without override, get_switch_port_overrides returns "PoE
\* enabled" exactly when the PoE mode of the port's profile is not DISABLED;
\* for an overridden port it returns the port's own override data and makes
\* no request for the profile.
C24_PoeBaselineFromProfile ==
    \A t \in AllTasks :
        LET c == scall[t]
        IN  (OverridesReturned(c) /\ c.pc = "sw_patch")
                => IF c.port2.profileOverrideEnable
                   THEN /\ c.existing.enable_poe = (c.port2.poe = PoE.enabled)
                        /\ c.existing.lldp_med_enable = c.port2.lldpMedEnable
                        /\ c.net = RequestsToPatch(c, FALSE)
                   ELSE /\ c.existing.enable_poe
                              = (profiles[c.port2.profileId].poe # PoE.disabled)
                        /\ c.net = RequestsToPatch(c, TRUE)

C24_Witness ==
    \E t \in AllTasks :
        LET c == scall[t]
        IN  /\ OverridesReturned(c) /\ c.pc = "sw_patch"
            /\ ~c.port2.profileOverrideEnable
            /\ profiles[c.port2.profileId].poe = PoE.use_device_settings
            /\ c.existing.enable_poe
            /\ c.port2.poe = PoE.disabled

\* Task 1 renames the port and task 2 sets its link speed, both by port
\* number, and each has read the port before the PATCH of the other was
\* applied; both calls are over.
BothReadFirst ==
    LET a == scall[1]
        b == scall[2]
    IN  /\ a.op = "update_switch_port" /\ b.op = "update_switch_port"
        /\ a.how = "index" /\ b.how = "index"
        /\ a.st = Only("name", "new") /\ b.st = Only("link_speed", LinkSpeed.SPEED_AUTO)
        /\ a.pc = "done" /\ b.pc = "done" /\ a.exc = "none" /\ b.exc = "none"
        /\ a.port.linkSpeed = LinkSpeed.SPEED_1_GBPS /\ b.port.name = "eth"

\* C28: when two update_switch_port calls that change different fields
\* have both read the port before either PATCH is applied, the port holds
\* the change of one caller only once both are over: the other change was
\* overwritten with the value read earlier.
C28_LostUpdate ==
    BothReadFirst
        => \/ (swPort.name = "new" /\ swPort.linkSpeed = LinkSpeed.SPEED_1_GBPS)
           \/ (swPort.name = "eth" /\ swPort.linkSpeed = LinkSpeed.SPEED_AUTO)

C28_Witness ==
    /\ BothReadFirst
    /\ swPort.name = "eth" /\ swPort.linkSpeed = LinkSpeed.SPEED_AUTO
    /\ scall[1].patched /\ scall[2].patched
    /\ scall[1].payload.v.name = "new"

(***************************************************************************)
(*                Claims about set_gateway_port_settings                   *)
(***************************************************************************)

\* C22: the poeSettings of the PATCH of set_gateway_port_settings has one
\* entry for every port of the gateway that has PoE and none for the other
\* ports; the entry of the target port has the requested value and every
\* other entry the state of its port as the gateway holds it, so the PATCH
\* leaves the other ports as they were.
C22_PoeSettingsCoverEveryPort ==
    \A t \in AllTasks :
        LET c == scall[t]
        IN  (c.op = "set_gateway_port_settings"
             /\ (c.pc = "gw_patch" \/ c.patched))
                => /\ DOMAIN c.gwPayload = {p \in GwPorts : c.gwSeen[p] # "none"}
                   /\ \A p \in DOMAIN c.gwPayload :
                        c.gwPayload[p] = IF p = c.gwPort THEN c.gwEnable = "on"
                                         ELSE c.gwSeen[p] = "on"
                   /\ c.pc = "gw_patch" => c.gwSeen = gwPoe
                   /\ c.patched => \A p \in GwPorts \ {c.gwPort} : gwPoe[p] = c.gwSeen[p]

C22_Witness ==
    \E t \in AllTasks :
        LET c == scall[t]
        IN  /\ c.op = "set_gateway_port_settings" /\ c.patched
            /\ c.gwSeen = MixedGateway /\ c.gwPort = 2 /\ c.gwEnable = "on"
            /\ DOMAIN c.gwPayload = {1, 2}
            /\ gwPoe = [MixedGateway EXCEPT ![2] = "on"]

(***************************************************************************)
(*        Claims about failures of the status check, login and target      *)
(***************************************************************************)

\* C25: the loginStatus request of _check_login never raises into the
\* caller: whatever its response (transport error, status other than 200,
\* application error, body without `login`, login = false), the call goes
\* on without an exception, and unless the response said login = true the
\* wrapper calls login() before the target request is sent.
C25_StatusFailureSwallowed ==
    [][\A t \in AllTasks :
          (call[t].pc = "await_status" /\ call'[t] # call[t])
              => /\ call'[t].exc = "none"
                 /\ call'[t].pc \in {"await_info", "await_target"}
                 /\ last'.out.exc # "none" => ~call'[t].refreshed
                 /\ ~call'[t].refreshed
                        => /\ call'[t].pc = "await_info"
                           /\ call'[t].nLogin = call[t].nLogin + 1
                           /\ call'[t].nTarget = 0]_vars

C25_Witness ==
    \E t \in AllTasks :
        /\ call[t].op = "request" /\ call[t].pc = "await_info"
        /\ call[t].nStatus = 1 /\ call[t].nLogin = 1 /\ call[t].nTarget = 0
        /\ last.endpoint = "loginStatus" /\ last.out.exc = "LoginFailed"

\* The last exchange was a target request that failed.
TargetFailed == last.endpoint = "target" /\ last.out.exc # "none"

\* C26: a target request that fails, with whatever exception, leaves the
\* token and the timestamp of the last login as they were; an authenticated
\* request that follows it within the hour after that timestamp is sent at
\* once with the same token, with no loginStatus request and no login.
C26_TargetFailureKeepsLogin ==
    [][\A t \in AllTasks :
          /\ (call[t].pc = "await_target" /\ call'[t].pc = "done")
                => /\ csrf_token' = csrf_token
                   /\ last_logon' = last_logon
                   /\ logon_set' = logon_set
          /\ (call[t].pc = "idle" /\ call'[t].op = "request" /\ TargetFailed
               /\ csrf_token # NoToken /\ now - last_logon < FRESH_WINDOW)
                => /\ call'[t].pc = "await_target"
                   /\ call'[t].sentTok = csrf_token
                   /\ call'[t].nStatus = 0 /\ call'[t].nLogin = 0]_vars

C26_Witness ==
    \E t \in AllTasks :
        /\ call[t].op = "request" /\ call[t].pc = "await_target"
        /\ call[t].hadToken /\ call[t].nStatus = 0 /\ call[t].nLogin = 0
        /\ call[t].elapsed = TimeStep
        /\ TargetFailed /\ last.out.exc = "LoginSessionClosed"
        /\ call[t].sentTok = csrf_token /\ csrf_token # NoToken

\* C27: a login() that fails at its controller-info request, at the version
\* gate or at the credentials POST leaves the token and the timestamp of
\* the last login as they were; a connection on which no login has
\* succeeded holds no token.
C27_FailedLoginKeepsToken ==
    [][/\ \A t \in AllTasks :
            (call[t].pc \in {"await_info", "await_post"} /\ call'[t].pc = "done"
             /\ call'[t].loginExc # "none")
                => /\ csrf_token' = csrf_token
                   /\ last_logon' = last_logon
                   /\ logon_set' = logon_set
       /\ issued' = 0 => (csrf_token' = NoToken /\ ~logon_set')]_vars

C27_Witness ==
    \E t \in AllTasks :
        /\ call[t].pc = "done" /\ call[t].op = "login" /\ call[t].nPost = 1
        /\ call[t].loginExc = "LoginFailed" /\ call[t].hadToken
        /\ csrf_token = issued /\ issued = 1 /\ logon_set

(***************************************************************************)
(*                    Claims about paged collections                       *)
(***************************************************************************)

\* The backend reports the same currentSize, at least 1, on every page.
ConstantSize == sizeMode \in {"pageSize", "capped"}
ReportedSize == IF sizeMode = "capped" THEN Min(PAGE_SIZE, ServerCap) ELSE PAGE_SIZE

\* C29: iterate_pages sends at least one page request; it asks for the
\* pages in order and for the next page only when every item of the pages
\* before has been yielded; and against a backend that echoes the page
\* number and reports a constant currentSize of at least 1 and a constant
\* totalRows it sends at most totalRows / currentSize + 1 requests and then
\* ends.
C29_PagesFiniteAndInOrder ==
    /\ [](ip_pc # "fetch" => Len(page_requests) >= 1)
    /\ [](page_requests = [i \in 1..Len(page_requests) |-> i])
    /\ [][Len(page_requests') > Len(page_requests)
            => /\ page_data = <<>>
               /\ ConstantSize
                    => Len(yielded) = Min(Len(page_requests) * ReportedSize, totalRows)]_vars
    /\ [](ConstantSize => Len(page_requests) <= (totalRows \div ReportedSize) + 1)
    /\ (ConstantSize => <>(ip_pc = "done"))

C29_Witness ==
    /\ ip_pc = "done" /\ sizeMode = "capped"
    /\ Len(page_requests) >= 3 /\ Len(yielded) = Len(page_requests) * ServerCap

\* An item that has the `wireless` field.
CarriesField(w) == w # "absent"

\* C30: get_connected_clients and get_known_clients go through the items
\* of the paged collection in order and yield a wireless client for an item
\* whose `wireless` is true, a wired client for one whose `wireless` is
\* false, and nothing for an item without the field; so the clients yielded
\* are as many as the items that have the field, and never more than the
\* items.
C30_ClientsByWirelessField ==
    LET carrying == SelectSeq(item_fields, CarriesField)
    IN  listing # "none"
            => /\ Len(item_fields) = Len(yielded)
               /\ Len(views) = Len(carrying)
               /\ \A i \in 1..Len(views) :
                    views[i] = IF carrying[i] = "true" THEN "wireless" ELSE "wired"
               /\ Len(views) <= Len(yielded)

C30_Witness ==
    /\ listing = "known" /\ ip_pc = "done"
    /\ item_fields = <<"false", "absent", "true">>
    /\ views = <<"wired", "wireless">>
    /\ yielded = <<1, 2, 3>>
====
